---- MODULE Spec2Model ----
(***************************************************************************)
(* A model of src/app/scienceapi/projects/views.py: the three read-only    *)
(* views of the projects API (project list, project detail, category       *)
(* list) over a store of projects, tags and categories.                    *)
(*                                                                         *)
(* Text is modelled as a sequence of one-character strings, so that        *)
(* splitting, trimming, case folding and substring search are computed     *)
(* character by character, as the code and the libraries it configures     *)
(* compute them.                                                           *)
(***************************************************************************)
EXTENDS Integers, Sequences, FiniteSets

VARIABLES
    projects,     \* the Project table: id -> row
    tagTable,     \* the Tag table: id -> name
    categoryTable,\* the Category table: id -> name
    page_size,    \* the PAGE_SIZE setting of the deployment
    order_pattern,\* the framework installed checks sort terms against its
                  \* ORDER_PATTERN (releases from 3.6.4 on do, earlier do not)
    req,          \* the last request handled
    resp          \* the response to it

vars == <<projects, tagTable, categoryTable, page_size, order_pattern, req, resp>>

store == <<projects, tagTable, categoryTable>>

----------------------------------------------------------------------------
(* Bounds of the model. *)

NumProjects == 2      \* rows of the Project table, ids 1..NumProjects
MaxTerms == 2         \* comma-separated tokens in a search / expand value
MaxSortTerms == 1     \* comma-separated tokens in a sort value
MaxPage == 2          \* page numbers requested, 1..MaxPage

----------------------------------------------------------------------------
(* Text. *)

Range(s) == {s[i] : i \in DOMAIN s}

COMMA == ","
SPACE == " "
DASH == "-"

\* str.lower(), and the case folding of the ORM's iexact / icontains lookups
LowerChar(c) ==
    CASE c = "A" -> "a"
      [] c = "B" -> "b"
      [] c = "U" -> "u"
      [] c = "X" -> "x"
      [] OTHER -> c

lower(s) == [i \in 1..Len(s) |-> LowerChar(s[i])]

\* the first index of sep in s, 0 when there is none
find(s, sep) ==
    IF \E i \in 1..Len(s) : s[i] = sep
    THEN CHOOSE i \in 1..Len(s) : s[i] = sep /\ \A j \in 1..(i - 1) : s[j] # sep
    ELSE 0

\* str.split(sep): always at least one piece; '' splits to ['']
RECURSIVE split(_, _)
split(s, sep) ==
    LET i == find(s, sep) IN
    IF i = 0 THEN <<s>>
    ELSE <<SubSeq(s, 1, i - 1)>> \o split(SubSeq(s, i + 1, Len(s)), sep)

\* str.strip(): leading and trailing whitespace removed
RECURSIVE strip(_)
strip(s) ==
    IF s = <<>> THEN s
    ELSE IF Head(s) = SPACE THEN strip(Tail(s))
    ELSE IF s[Len(s)] = SPACE THEN strip(SubSeq(s, 1, Len(s) - 1))
    ELSE s

\* str.lstrip('-'): every leading dash removed
RECURSIVE lstrip_dash(_)
lstrip_dash(s) ==
    IF s # <<>> /\ Head(s) = DASH THEN lstrip_dash(Tail(s)) ELSE s

\* the ORM lookup field__icontains=term
icontains(value, term) ==
    \E i \in 0..(Len(value) - Len(term)) :
        SubSeq(lower(value), i + 1, i + Len(term)) = lower(term)

\* the ORM lookup field__iexact=term
iexact(value, term) == lower(value) = lower(term)

\* request.query_params: a parameter is absent or carries a text value
Absent == [present |-> FALSE, value |-> <<>>]
Given(s) == [present |-> TRUE, value |-> s]

\* query_params.get(name, default)
get(param, default) == IF param.present THEN param.value ELSE default

----------------------------------------------------------------------------
(* Text literals used by the code and by the requests. *)

T_empty == <<>>
T_users == <<"u", "s", "e", "r", "s">>
T_events == <<"e", "v", "e", "n", "t", "s">>
T_date_created == <<"d", "a", "t", "e", "_", "c", "r", "e", "a", "t", "e", "d">>
T_date_updated == <<"d", "a", "t", "e", "_", "u", "p", "d", "a", "t", "e", "d">>

----------------------------------------------------------------------------
(* The store. *)

ProjectIds == 1..NumProjects

\* Project.objects.public(): the rows flagged public
public == {id \in DOMAIN projects : projects[id].public}

\* the names reached through a many-to-many relation of a project
tags__name(id) == {tagTable[t] : t \in projects[id].tags}
categories__name(id) == {categoryTable[c] : c \in projects[id].categories}

----------------------------------------------------------------------------
(* ProjectView: GET /projects/:id *)

\* a view that forgets the visibility predicate: Project.objects.all()
ProjectView_queryset_all == DOMAIN projects

\* ProjectView.queryset
ProjectView_queryset == public

\* s occurs in text as a contiguous run of characters (Python's `in` on str)
occurs_in(s, text) ==
    \E i \in 0..(Len(text) - Len(s)) : SubSeq(text, i + 1, i + Len(s)) = s

\* get_serializer_class without the split: `in` tests the raw value
get_serializer_class_unsplit(expand_param) ==
    IF expand_param.present
    THEN LET expand == expand_param.value IN
         IF occurs_in(T_users, expand) /\ ~occurs_in(T_events, expand)
         THEN "ProjectUserSerializer"
         ELSE IF occurs_in(T_events, expand) /\ ~occurs_in(T_users, expand)
         THEN "ProjectEventSerializer"
         ELSE IF occurs_in(T_events, expand) /\ occurs_in(T_users, expand)
         THEN "ProjectExpandAllSerializer"
         ELSE "ProjectWithGithubSerializer"
    ELSE "ProjectWithGithubSerializer"

\* get_serializer_class with the first branch missing its second test
get_serializer_class_users_first(expand_param) ==
    IF expand_param.present
    THEN LET expand == Range(split(expand_param.value, COMMA)) IN
         IF T_users \in expand
         THEN "ProjectUserSerializer"
         ELSE IF T_events \in expand /\ T_users \notin expand
         THEN "ProjectEventSerializer"
         ELSE IF T_events \in expand /\ T_users \in expand
         THEN "ProjectExpandAllSerializer"
         ELSE "ProjectWithGithubSerializer"
    ELSE "ProjectWithGithubSerializer"

\* ProjectView.get_serializer_class
get_serializer_class(expand_param) ==
    IF expand_param.present
    THEN LET expand == Range(split(expand_param.value, COMMA)) IN
         IF T_users \in expand /\ T_events \notin expand
         THEN "ProjectUserSerializer"
         ELSE IF T_events \in expand /\ T_users \notin expand
         THEN "ProjectEventSerializer"
         ELSE IF T_events \in expand /\ T_users \in expand
         THEN "ProjectExpandAllSerializer"
         ELSE "ProjectWithGithubSerializer"
    ELSE "ProjectWithGithubSerializer"

NoPage == [present |-> FALSE, value |-> 1]
PageNo(n) == [present |-> TRUE, value |-> n]

Request(view, pk, expand, search, tags, categories, sort, page) ==
    [view |-> view, pk |-> pk, expand |-> expand, search |-> search,
     tags |-> tags, categories |-> categories, sort |-> sort, page |-> page]

Response(status, serializer, results, count) ==
    [status |-> status, serializer |-> serializer,
     results |-> results, count |-> count]

NotFound == Response(404, "none", <<>>, 0)
ServerError == Response(500, "none", <<>>, 0)

\* RetrieveAPIView.retrieve: get_object_or_404 on the queryset, then the
\* serializer chosen by get_serializer_class
ProjectView_response(pk, expand_param) ==
    IF pk \in ProjectView_queryset
    THEN Response(200, get_serializer_class(expand_param), <<pk>>, 1)
    ELSE NotFound

ProjectView(pk, expand_param) ==
    /\ req' = Request("ProjectView", pk, expand_param, Absent, Absent, Absent,
                      Absent, NoPage)
    /\ resp' = ProjectView_response(pk, expand_param)
    /\ UNCHANGED <<store, page_size, order_pattern>>

----------------------------------------------------------------------------
(* ProjectsListView: GET /projects *)

\* a view that forgets the visibility predicate: Project.objects.all()
ProjectsListView_queryset_all == DOMAIN projects

\* ProjectsListView.queryset
ProjectsListView_queryset == public

\* the names a filter's `name` reaches: tags__name or categories__name
related_names(id, relation) ==
    IF relation = "tags__name" THEN tags__name(id) ELSE categories__name(id)

\* a CharFilter whose lookup_expr is icontains
CharFilter_icontains(qs, param, relation) ==
    LET value == strip(get(param, T_empty)) IN
    IF value = T_empty THEN qs
    ELSE {id \in qs : \E n \in related_names(id, relation) : icontains(n, value)}

\* django_filters.CharFilter(name=relation, lookup_expr='iexact'): the value
\* is cleaned by a form CharField (trimmed), and an empty value leaves the
\* queryset alone
CharFilter(qs, param, relation) ==
    LET value == strip(get(param, T_empty)) IN
    IF value = T_empty THEN qs
    ELSE {id \in qs : \E n \in related_names(id, relation) : iexact(n, value)}

\* ProjectCustomFilter: the tags filter, then the categories filter
ProjectCustomFilter(qs, tags_param, categories_param) ==
    CharFilter(CharFilter(qs, tags_param, "tags__name"),
               categories_param, "categories__name")

\* SearchFilter.get_search_terms of the framework, which ProjectSearchFilter
\* overrides: split at commas and at whitespace, empty pieces dropped
RECURSIVE drop_empty(_)
drop_empty(pieces) ==
    IF pieces = <<>> THEN <<>>
    ELSE (IF Head(pieces) = T_empty THEN <<>> ELSE <<Head(pieces)>>)
         \o drop_empty(Tail(pieces))

get_search_terms_default(search_param) ==
    LET text == get(search_param, T_empty) IN
    drop_empty(split([i \in 1..Len(text) |->
                         IF text[i] = COMMA THEN SPACE ELSE text[i]], SPACE))

\* ProjectSearchFilter.get_search_terms
get_search_terms(search_param) == split(get(search_param, T_empty), COMMA)

\* search_fields with the '=' prefixes left out: every field by icontains
search_fields_contains(id, term) ==
    \/ icontains(projects[id].name, term)
    \/ icontains(projects[id].institution, term)
    \/ icontains(projects[id].description, term)
    \/ icontains(projects[id].short_description, term)
    \/ icontains(projects[id].license, term)
    \/ \E n \in tags__name(id) : icontains(n, term)
    \/ \E n \in categories__name(id) : icontains(n, term)

\* ProjectsListView.search_fields: one term against every search field,
\* '=' fields by iexact and the others by icontains, joined by OR
search_fields(id, term) ==
    \/ icontains(projects[id].name, term)
    \/ iexact(projects[id].institution, term)
    \/ icontains(projects[id].description, term)
    \/ icontains(projects[id].short_description, term)
    \/ iexact(projects[id].license, term)
    \/ \E n \in tags__name(id) : iexact(n, term)
    \/ \E n \in categories__name(id) : iexact(n, term)

\* SearchFilter.filter_queryset: the queryset is filtered once per term,
\* each filter narrowing the one before, then made distinct
RECURSIVE filter_terms(_, _)
filter_terms(qs, terms) ==
    IF terms = <<>> THEN qs
    ELSE filter_terms({id \in qs : search_fields(id, Head(terms))}, Tail(terms))

ProjectSearchFilter(qs, search_param) ==
    filter_terms(qs, get_search_terms(search_param))

\* ProjectsListView.ordering_fields
ordering_fields == {T_date_created, T_date_updated}

\* a term QuerySet.order_by accepts: an ordering field, or one behind one
\* dash; of the terms naming an ordering field these are the ones the
\* framework's ORDER_PATTERN matches
descending(term) == term # <<>> /\ Head(term) = DASH
field_of(term) == IF descending(term) THEN Tail(term) ELSE term
orderable(term) == field_of(term) \in ordering_fields

\* an ordering filter that validates nothing
remove_invalid_fields_none(fields) == fields

\* OrderingFilter.remove_invalid_fields: the terms naming an ordering field,
\* leading dashes aside, are kept; a framework that checks ORDER_PATTERN
\* keeps of these the ones the pattern matches
RECURSIVE remove_invalid_fields(_)
remove_invalid_fields(fields) ==
    IF fields = <<>> THEN <<>>
    ELSE (IF /\ lstrip_dash(Head(fields)) \in ordering_fields
             /\ (order_pattern => orderable(Head(fields)))
          THEN <<Head(fields)>> ELSE <<>>)
         \o remove_invalid_fields(Tail(fields))

\* OrderingFilter.get_ordering: the tokens of ?sort=, trimmed, the invalid
\* ones removed; the view has no default ordering to fall back on
get_ordering(sort_param) ==
    LET params == get(sort_param, T_empty)
        pieces == split(params, COMMA)
    IN  IF params = T_empty THEN <<>>
        ELSE remove_invalid_fields([i \in 1..Len(pieces) |-> strip(pieces[i])])

field_value(id, field) ==
    IF field = T_date_created THEN projects[id].date_created
    ELSE projects[id].date_updated

\* an ordering that ignores the leading dash
RECURSIVE before_ascending(_, _, _)
before_ascending(x, y, ordering) ==
    IF ordering = <<>> THEN FALSE
    ELSE LET f == field_of(Head(ordering))
             vx == field_value(x, f)
             vy == field_value(y, f)
         IN  IF vx = vy THEN before_ascending(x, y, Tail(ordering))
             ELSE vx < vy

\* ORDER BY: row x must come before row y under the ordering terms. Rows
\* equal under every term, and all rows when there is no term, are in no
\* order: nothing in the views orders them
RECURSIVE before(_, _, _)
before(x, y, ordering) ==
    IF ordering = <<>> THEN FALSE
    ELSE LET f == field_of(Head(ordering))
             vx == field_value(x, f)
             vy == field_value(y, f)
         IN  IF vx = vy THEN before(x, y, Tail(ordering))
             ELSE IF descending(Head(ordering)) THEN vx > vy ELSE vx < vy

\* the sequences that hold every member of a set once
arrangements(S) ==
    {f \in [1..Cardinality(S) -> S] : \A i, j \in 1..Cardinality(S) : f[i] = f[j] => i = j}

\* QuerySet.order_by(*ordering) evaluated: the sequences in which the
\* database may return the rows of qs, one for each way of placing the rows
\* that ORDER BY leaves unordered; a term order_by does not accept raises
\* FieldError, and there are no rows
order_by(qs, ordering) ==
    IF \E k \in 1..Len(ordering) : ~orderable(ordering[k])
    THEN {}
    ELSE {rows \in arrangements(qs) :
             \A i, j \in 1..Len(rows) : i < j => ~before(rows[j], rows[i], ordering)}

\* Paginator.num_pages, with an empty first page allowed
num_pages(count) ==
    IF count = 0 THEN 1 ELSE (count + page_size - 1) \div page_size

\* Paginator.page(number): the rows of one page
page_of(rows, number) ==
    SubSeq(rows, (number - 1) * page_size + 1,
           IF number * page_size < Len(rows) THEN number * page_size ELSE Len(rows))

\* GenericAPIView.filter_queryset through the three filter backends in
\* order, evaluated: the sequences of rows the database may return, none
\* when the ordering backend raises
ProjectsListView_rows(search, tags, categories, sort) ==
    LET filtered == ProjectCustomFilter(ProjectsListView_queryset, tags, categories)
        searched == ProjectSearchFilter(filtered, search)
    IN  order_by(searched, get_ordering(sort))

\* PageNumberPagination.paginate_queryset, then ProjectSerializer
paginate(rows, page) ==
    LET number == get(page, 1) IN
    IF number < 1 \/ number > num_pages(Len(rows))
    THEN NotFound
    ELSE Response(200, "ProjectSerializer", page_of(rows, number), Len(rows))

\* ListAPIView.list: the responses a request may get, one for each order
\* the database may return the rows in; an exception raised while filtering
\* is no API exception, and is answered with a server error
ProjectsListView_responses(search, tags, categories, sort, page) ==
    LET listings == ProjectsListView_rows(search, tags, categories, sort) IN
    IF listings = {}
    THEN {ServerError}
    ELSE {paginate(rows, page) : rows \in listings}

\* a list view that writes to the row it lists first
ProjectsListView_touching(search, tags, categories, sort, page) ==
    \E r \in ProjectsListView_responses(search, tags, categories, sort, page) :
        /\ req' = Request("ProjectsListView", 0, Absent, search, tags, categories,
                          sort, page)
        /\ resp' = r
        /\ projects' = IF r.results = <<>> THEN projects
                       ELSE [projects EXCEPT ![r.results[1]].date_updated = @ + 1]
        /\ UNCHANGED <<tagTable, categoryTable, page_size, order_pattern>>

ProjectsListView(search, tags, categories, sort, page) ==
    /\ req' = Request("ProjectsListView", 0, Absent, search, tags, categories,
                      sort, page)
    /\ resp' \in ProjectsListView_responses(search, tags, categories, sort, page)
    /\ UNCHANGED <<store, page_size, order_pattern>>

----------------------------------------------------------------------------
(* CategoryListView: GET /categories *)

\* CategoryListView.queryset: Category.objects.all(), unpaginated and with
\* no ordering: the sequences in which the database may return the rows
CategoryListView_queryset == arrangements(DOMAIN categoryTable)

CategoryListView ==
    /\ req' = Request("CategoryListView", 0, Absent, Absent, Absent, Absent,
                      Absent, NoPage)
    /\ \E rows \in CategoryListView_queryset :
          resp' = Response(200, "CategorySerializer", rows, Len(rows))
    /\ UNCHANGED <<store, page_size, order_pattern>>

----------------------------------------------------------------------------
(* Inputs: the stores and the requests the checks range over. *)

T_a == <<"a">>
T_b == <<"b">>
T_x == <<"x">>
T_ab == <<"a", "b">>
T_Ab == <<"A", "b">>
T_B == <<"B">>
T_Users == <<"U", "s", "e", "r", "s">>
T_sp_events == <<" ", "e", "v", "e", "n", "t", "s">>

Row(is_public, name, inst, descr, short, license, tags, cats, created, updated) ==
    [public |-> is_public, name |-> name, institution |-> inst,
     description |-> descr, short_description |-> short,
     license |-> license, tags |-> tags, categories |-> cats,
     date_created |-> created, date_updated |-> updated]

BaseRow == Row(TRUE, T_x, T_empty, T_empty, T_empty, T_empty, {}, {}, 1, 1)

\* the values of the PAGE_SIZE setting
PageSizes == {1, 2}

Tags0 == <<T_Ab, T_b>>
Categories0 == <<T_ab, T_B>>

\* str.join: the pieces with sep between them
RECURSIVE join(_, _)
join(pieces, sep) ==
    IF Len(pieces) = 0 THEN <<>>
    ELSE IF Len(pieces) = 1 THEN pieces[1]
    ELSE pieces[1] \o <<sep>> \o join(Tail(pieces), sep)

\* the sequences of 1..n tokens
TokenSeqs(tokens, n) == UNION {[1..k -> tokens] : k \in 1..n}

\* the values of a comma-separated parameter of up to n tokens, and absence
CsvParams(tokens, n) ==
    {Absent} \cup {Given(join(ts, COMMA)) : ts \in TokenSeqs(tokens, n)}

NoRequest == Request("none", 0, Absent, Absent, Absent, Absent, Absent, NoPage)
NoResponse == Response(0, "none", <<>>, 0)

----------------------------------------------------------------------------
(* The detail endpoint over every pk and expand value. *)

ExpandTokens == {T_users, T_events, T_Users, T_sp_events, T_empty, T_x}
ExpandParams == CsvParams(ExpandTokens, MaxTerms)

DetailRows == {[BaseRow EXCEPT !.public = b] : b \in BOOLEAN}

InitDetail ==
    /\ projects \in [ProjectIds -> DetailRows]
    /\ tagTable = Tags0
    /\ categoryTable = Categories0
    /\ page_size \in {2}
    /\ order_pattern = FALSE   \* plays no part: no sort term here needs the check
    /\ req = NoRequest
    /\ resp = NoResponse

NextDetail ==
    \E pk \in 0..NumProjects, e \in ExpandParams : ProjectView(pk, e)

SpecDetail == InitDetail /\ [][NextDetail]_vars

----------------------------------------------------------------------------
(* Claims about the detail endpoint. *)

\* tok is one of the comma-separated tokens of text: it occurs in text
\* between two commas, or between a comma and an end of text
HasToken(text, tok) ==
    \E i \in 1..(Len(text) + 1) :
        LET j == i + Len(tok) - 1 IN
        /\ j <= Len(text)
        /\ SubSeq(text, i, j) = tok
        /\ COMMA \notin Range(tok)
        /\ (i = 1 \/ text[i - 1] = COMMA)
        /\ (j = Len(text) \/ text[j + 1] = COMMA)

ExpandHas(expand_param, tok) ==
    expand_param.present /\ HasToken(expand_param.value, tok)

\* the four-way table of the detail endpoint
ExpandTable(expand_param) ==
    LET u == ExpandHas(expand_param, T_users)
        e == ExpandHas(expand_param, T_events)
    IN  CASE u /\ ~e -> "ProjectUserSerializer"
          [] e /\ ~u -> "ProjectEventSerializer"
          [] u /\ e -> "ProjectExpandAllSerializer"
          [] ~u /\ ~e -> "ProjectWithGithubSerializer"

\* C2: a successful detail response is serialized by the serializer the
\* four-way table gives for the tokens of expand: users without events, events
\* without users, both, and neither or no expand at all.
C2_ExpandTable ==
    (req.view = "ProjectView" /\ resp.status = 200) =>
        resp.serializer = ExpandTable(req.expand)

C2_Witness ==
    /\ req.view = "ProjectView"
    /\ resp.status = 200
    /\ ExpandHas(req.expand, T_users)
    /\ ExpandHas(req.expand, T_events)
    /\ resp.serializer = "ProjectExpandAllSerializer"

\* C3: a detail request for an id that is no project, or a project that is not
\* public, is answered NotFound with no body, whatever expand is.
C3_NotFound ==
    (/\ req.view = "ProjectView"
     /\ (req.pk \notin DOMAIN projects \/ ~projects[req.pk].public)) =>
        /\ resp.status = 404
        /\ resp.results = <<>>
        /\ resp.serializer = "none"

C3_Witness ==
    /\ req.view = "ProjectView"
    /\ req.pk \in DOMAIN projects
    /\ ~projects[req.pk].public
    /\ ExpandHas(req.expand, T_users)
    /\ resp.status = 404

Perms(n) == {f \in [1..n -> 1..n] : \A i, j \in 1..n : f[i] = f[j] => i = j}

\* the tokens ts with x put in after the first k of them
InsertAt(ts, k, x) == SubSeq(ts, 1, k) \o <<x>> \o SubSeq(ts, k + 1, Len(ts))

OtherTokens == ExpandTokens \ {T_users, T_events}

\* C9: the detail response depends only on whether the exact tokens users and
\* events are among the tokens of expand: the same request with the tokens
\* permuted, one repeated, or another token added (unknown, empty, padded with
\* a space, differently cased) gets the same response, and so does every
\* request with the same two tokens present.
C9_TokenSetOnly ==
    (req.view = "ProjectView") =>
        /\ \A e \in ExpandParams :
              (/\ ExpandHas(e, T_users) = ExpandHas(req.expand, T_users)
               /\ ExpandHas(e, T_events) = ExpandHas(req.expand, T_events))
              => ProjectView_response(req.pk, e) = resp
        /\ req.expand.present =>
              LET ts == split(req.expand.value, COMMA) IN
              /\ \A f \in Perms(Len(ts)) :
                    ProjectView_response(req.pk,
                        Given(join([i \in 1..Len(ts) |-> ts[f[i]]], COMMA))) = resp
              /\ \A i \in 1..Len(ts) :
                    ProjectView_response(req.pk,
                        Given(join(Append(ts, ts[i]), COMMA))) = resp
              /\ \A x \in OtherTokens, k \in 0..Len(ts) :
                    ProjectView_response(req.pk,
                        Given(join(InsertAt(ts, k, x), COMMA))) = resp

C9_Witness ==
    /\ req.view = "ProjectView"
    /\ resp.status = 200
    /\ ExpandHas(req.expand, T_events)
    /\ ExpandHas(req.expand, T_Users)
    /\ resp.serializer = "ProjectEventSerializer"

----------------------------------------------------------------------------
(* The list endpoint seen across its pages. *)

ListRequest(r) == r.view = "ProjectsListView"

\* the listings of request r: the sequences of rows its pages are cut from,
\* one for each order the database may return the rows in
Listings(r) == ProjectsListView_rows(r.search, r.tags, r.categories, r.sort)

NoRepeats(rows) == \A i, j \in 1..Len(rows) : rows[i] = rows[j] => i = j

Min(a, b) == IF a < b THEN a ELSE b

\* the response is a page of a listing of exactly the projects in S: every
\* listing holds each project of S once and nothing else, the count is that
\* of S, and the page is the slice asked for of one of the listings
Lists(S) ==
    LET n == get(req.page, 1)
        size == Cardinality(S)
    IN  /\ resp.status \in {200, 404}
        /\ Listings(req) # {}
        /\ \A rows \in Listings(req) : Range(rows) = S /\ Len(rows) = size
        /\ resp.status = 404 <=>
              (n < 1 \/ (n > 1 /\ (n - 1) * page_size >= size))
        /\ resp.status = 200 =>
              /\ resp.count = size
              /\ Range(resp.results) \subseteq S
              /\ NoRepeats(resp.results)
              /\ Len(resp.results) = Min(page_size, size - (n - 1) * page_size)
              /\ \E rows \in Listings(req) :
                    \A k \in 1..Len(resp.results) :
                        resp.results[k] = rows[(n - 1) * page_size + k]

Pages == {NoPage} \cup {PageNo(n) : n \in 1..MaxPage}

----------------------------------------------------------------------------
(* The list endpoint under the tags and categories filters, no search. *)

T_sp_b == <<" ", "b">>

FilterParams ==
    {Absent, Given(T_empty), Given(T_ab), Given(T_B), Given(T_sp_b), Given(T_a)}

FilterRows ==
    {BaseRow,
     [BaseRow EXCEPT !.tags = {1}, !.categories = {2}],
     [BaseRow EXCEPT !.tags = {1, 2}],
     [BaseRow EXCEPT !.tags = {2}, !.categories = {1, 2}],
     [BaseRow EXCEPT !.public = FALSE, !.tags = {1}, !.categories = {2}]}

InitFilter ==
    /\ projects \in [ProjectIds -> FilterRows]
    /\ tagTable = Tags0
    /\ categoryTable = Categories0
    /\ page_size \in PageSizes
    /\ order_pattern = FALSE   \* plays no part: no sort term here needs the check
    /\ req = NoRequest
    /\ resp = NoResponse

NextFilter ==
    \E t \in FilterParams, c \in FilterParams \ {Given(T_sp_b), Given(T_a)},
       pg \in Pages :
        ProjectsListView(Absent, t, c, Absent, pg)

SpecFilter == InitFilter /\ [][NextFilter]_vars

\* the public projects with a tag (a category) named x, case ignored
PublicWithTag(x) ==
    {id \in DOMAIN projects :
        projects[id].public /\ \E t \in projects[id].tags : lower(tagTable[t]) = lower(x)}
PublicWithCategory(x) ==
    {id \in DOMAIN projects :
        /\ projects[id].public
        /\ \E c \in projects[id].categories : lower(categoryTable[c]) = lower(x)}
Public == {id \in DOMAIN projects : projects[id].public}

Padded(x) == x # <<>> /\ (x[1] = SPACE \/ x[Len(x)] = SPACE)

\* C4 as stated: without search, every given tags value Y and categories
\* value X select the public projects with a tag named Y and a category named
\* X, case ignored; an absent parameter selects all.
C4_AsStated ==
    (ListRequest(req) /\ ~req.search.present) =>
        Lists((IF req.tags.present THEN PublicWithTag(req.tags.value) ELSE Public)
              \cap (IF req.categories.present
                    THEN PublicWithCategory(req.categories.value) ELSE Public))

\* what a parameter selects: a value that is not empty (and not padded with
\* spaces) selects by name, an empty value selects all, like an absent one
TagsSelect(param) ==
    IF param.present /\ param.value # T_empty
    THEN PublicWithTag(param.value) ELSE Public
CategoriesSelect(param) ==
    IF param.present /\ param.value # T_empty
    THEN PublicWithCategory(param.value) ELSE Public

\* C4 amended: without search, a tags value Y and a categories value X that
\* are not empty select the public projects with a tag named Y and a category
\* named X, case ignored, both at once when both are given; an empty value,
\* like an absent parameter, puts no constraint on its dimension.
C4_Filters ==
    (/\ ListRequest(req)
     /\ ~req.search.present
     /\ ~Padded(req.tags.value)
     /\ ~Padded(req.categories.value)) =>
        Lists(TagsSelect(req.tags) \cap CategoriesSelect(req.categories))

C4_Witness ==
    /\ ListRequest(req)
    /\ req.tags = Given(T_ab)
    /\ req.categories = Given(T_B)
    /\ resp.status = 200
    /\ Len(resp.results) = 1
    /\ \E id \in DOMAIN projects : projects[id].public /\ id \notin Range(resp.results)

----------------------------------------------------------------------------
(* The list endpoint under search. *)

T_aB == <<"a", "B">>

T_comma == <<COMMA>>
T_a_comma == T_a \o <<COMMA>>
T_comma_aB == <<COMMA>> \o T_aB

SearchTokens == {T_empty, T_a, T_aB}

\* the values built of the two terms, and values with an empty term
SearchParams ==
    CsvParams({T_a, T_aB}, MaxTerms)
    \cup {Given(T_empty), Given(T_comma), Given(T_a_comma), Given(T_comma_aB)}

\* rows that differ in the fields search reads, one field a row
SearchRows ==
    {BaseRow,
     [BaseRow EXCEPT !.name = T_Ab],
     [BaseRow EXCEPT !.institution = T_ab],
     [BaseRow EXCEPT !.description = T_Ab],
     [BaseRow EXCEPT !.short_description = T_Ab],
     [BaseRow EXCEPT !.license = T_ab],
     [BaseRow EXCEPT !.tags = {1}],
     [BaseRow EXCEPT !.categories = {1}],
     [BaseRow EXCEPT !.name = T_Ab, !.public = FALSE]}

InitSearch ==
    /\ projects \in [ProjectIds -> SearchRows]
    /\ tagTable = Tags0
    /\ categoryTable = Categories0
    /\ page_size \in {2}
    /\ order_pattern = FALSE   \* plays no part: no sort term here needs the check
    /\ req = NoRequest
    /\ resp = NoResponse

NextSearch ==
    \/ \E s \in SearchParams :
          ProjectsListView(s, Absent, Absent, Absent, NoPage)
    \/ \E s \in {Absent, Given(T_empty), Given(T_aB)}, c \in {Absent, Given(T_ab)} :
          ProjectsListView(s, Given(T_aB), c, Absent, NoPage)

SpecSearch == InitSearch /\ [][NextSearch]_vars

\* text t occurs in text v, case ignored
Contains(v, t) ==
    \E i \in 1..(Len(v) + 1) :
        /\ i + Len(t) - 1 <= Len(v)
        /\ \A k \in 1..Len(t) : LowerChar(v[i + k - 1]) = LowerChar(t[k])

\* text t equals text v, case ignored
Equals(v, t) ==
    Len(v) = Len(t) /\ \A k \in 1..Len(t) : LowerChar(v[k]) = LowerChar(t[k])

\* the per-field policy: name, description and short_description by
\* containment; institution, license, tag name and category name by equality
TermMatches(id, t) ==
    \/ Contains(projects[id].name, t)
    \/ Contains(projects[id].description, t)
    \/ Contains(projects[id].short_description, t)
    \/ Equals(projects[id].institution, t)
    \/ Equals(projects[id].license, t)
    \/ \E g \in projects[id].tags : Equals(tagTable[g], t)
    \/ \E c \in projects[id].categories : Equals(categoryTable[c], t)

\* the terms of a search value: the texts between its commas
CountCommas(v) == Cardinality({i \in 1..Len(v) : v[i] = COMMA})

IsTermOf(v, t) == HasToken(v, t)

SearchRequest(r) == ListRequest(r) /\ r.search.present

\* C5 as stated: a search lists the union over its terms: the public projects
\* (that pass the filters) matched by at least one term.
C5_AsStated ==
    (SearchRequest(req) /\ ~req.sort.present) =>
        Lists({id \in TagsSelect(req.tags) \cap CategoriesSelect(req.categories) :
                  \E t \in SearchTokens :
                      IsTermOf(req.search.value, t) /\ TermMatches(id, t)})

\* C5 amended: a search lists the intersection over its terms: a public
\* project (that passes the filters) is listed if and only if every term
\* matches at least one searchable field, under the per-field policy; so
\* search=a,b lists the projects matching "a" and matching "b".
C5_EveryTerm ==
    (SearchRequest(req) /\ ~req.sort.present) =>
        Lists({id \in TagsSelect(req.tags) \cap CategoriesSelect(req.categories) :
                  \A t \in SearchTokens :
                      IsTermOf(req.search.value, t) => TermMatches(id, t)})

C5_Witness ==
    /\ SearchRequest(req)
    /\ IsTermOf(req.search.value, T_a)
    /\ IsTermOf(req.search.value, T_aB)
    /\ resp.status = 200
    /\ Len(resp.results) = 1
    /\ \E id \in Public :
          /\ id \notin Range(resp.results)
          /\ TermMatches(id, T_aB)
          /\ ~TermMatches(id, T_a)

\* C10: the search terms are the texts between the commas of the value, one
\* more than its commas, untrimmed and with repeats kept; with no search
\* parameter or an empty one there is the one empty term, and the listing is
\* that of the tags and categories filters alone.
C10_Terms ==
    ListRequest(req) =>
        LET v == get(req.search, T_empty)
            terms == get_search_terms(req.search)
        IN  /\ Len(terms) = CountCommas(v) + 1
            /\ join(terms, COMMA) = v
            /\ \A i \in 1..Len(terms) : COMMA \notin Range(terms[i])
            /\ v = T_empty =>
                  /\ terms = <<T_empty>>
                  /\ Lists(TagsSelect(req.tags) \cap CategoriesSelect(req.categories))

C10_Witness ==
    /\ ListRequest(req)
    /\ req.search = Given(T_empty)
    /\ req.tags = Given(T_aB)
    /\ resp.status = 200
    /\ Len(resp.results) = 1
    /\ Cardinality(Public) = 2

----------------------------------------------------------------------------
(* The list endpoint under sort. *)

T_desc_date_created == <<DASH>> \o T_date_created
T_desc_date_updated == <<DASH>> \o T_date_updated
T_sp_date_updated == <<SPACE>> \o T_date_updated
T_dashes_date_created == <<DASH, DASH>> \o T_date_created

SortFields ==
    {T_date_created, T_date_updated, T_desc_date_created, T_desc_date_updated}

\* the other tokens: an unknown name, a field behind two dashes, a padded
\* field
OtherSortTokens == {T_x, T_dashes_date_created}
SortTokens == SortFields \cup OtherSortTokens \cup {T_sp_date_updated}
T_two_fields == T_desc_date_created \o <<COMMA>> \o T_date_updated
SortParams ==
    {Given(f) : f \in SortFields}
    \cup {Given(T_two_fields), Given(T_sp_date_updated)}
    \cup CsvParams(OtherSortTokens, MaxSortTerms)

SortRows ==
    {BaseRow,
     [BaseRow EXCEPT !.date_updated = 2],
     [BaseRow EXCEPT !.date_created = 2, !.tags = {1}],
     [BaseRow EXCEPT !.public = FALSE, !.date_updated = 2]}

InitSort ==
    /\ projects \in [ProjectIds -> SortRows]
    /\ tagTable = Tags0
    /\ categoryTable = Categories0
    /\ page_size \in PageSizes
    /\ order_pattern \in BOOLEAN
    /\ req = NoRequest
    /\ resp = NoResponse

NextSort ==
    \/ \E so \in SortParams, pg \in Pages :
          ProjectsListView(Absent, Absent, Absent, so, pg)
    \/ \E f \in SortFields :
          ProjectsListView(Absent, Given(T_aB), Absent, Given(f), NoPage)

SpecSort == InitSort /\ [][NextSort]_vars

\* request r without its sort parameter
Unsorted(r) == [r EXCEPT !.sort = Absent]

UnsortedResponses(r) ==
    ProjectsListView_responses(r.search, r.tags, r.categories, Absent, r.page)

SortedResponses(r) ==
    ProjectsListView_responses(r.search, r.tags, r.categories, r.sort, r.page)

\* C6 as stated: a list request whose sort value is none of the four sort
\* fields is answered with a client error and no project data.
C6_AsStated ==
    (ListRequest(req) /\ req.sort.present /\ req.sort.value \notin SortFields) =>
        /\ resp.status \in 400..499
        /\ resp.results = <<>>

\* no token of the value, trimmed and its leading dashes dropped, names a
\* sort field
NamesNoSortField(v) ==
    \A tok \in SortTokens \cup {T_empty} :
        HasToken(v, tok) => lstrip_dash(strip(tok)) \notin {T_date_created, T_date_updated}

\* C6 amended: a list request whose sort value names no sort field (no token
\* of it, trimmed and leading dashes dropped, is date_created or date_updated)
\* is not rejected: the value is ignored, and the responses the request can
\* get are those the same request can get without sort.
C6_Ignored ==
    (ListRequest(req) /\ req.sort.present /\ NamesNoSortField(req.sort.value)) =>
        /\ resp \in UnsortedResponses(req)
        /\ SortedResponses(req) = UnsortedResponses(req)
        /\ resp.status \in {200, 404}

C6_Witness ==
    /\ ListRequest(req)
    /\ req.sort = Given(T_x)
    /\ resp.status = 200
    /\ Len(resp.results) = 2

\* the dates of the rows, in order
Dates(rows, field) == [i \in 1..Len(rows) |-> field_value(rows[i], field)]

NonDecreasing(ds) == \A i, j \in 1..Len(ds) : i < j => ds[i] <= ds[j]
NonIncreasing(ds) == \A i, j \in 1..Len(ds) : i < j => ds[i] >= ds[j]

\* rows are in the order the sort value v asks for
InOrder(rows, v) ==
    /\ v = T_date_created => NonDecreasing(Dates(rows, T_date_created))
    /\ v = T_date_updated => NonDecreasing(Dates(rows, T_date_updated))
    /\ v = T_desc_date_created => NonIncreasing(Dates(rows, T_date_created))
    /\ v = T_desc_date_updated => NonIncreasing(Dates(rows, T_date_updated))

\* C7: under sort=date_created or sort=date_updated the page returned, and
\* every listing the pages are cut from, are non-decreasing in that field, with
\* a leading dash non-increasing; and sorting changes only the order: every
\* listing under sort is a listing of the same request without sort, so the
\* projects listed across the pages, their number and the status are the same.
C7_Sorted ==
    (ListRequest(req) /\ req.sort.present /\ req.sort.value \in SortFields) =>
        /\ resp.status \in {200, 404}
        /\ resp.status = 200 => InOrder(resp.results, req.sort.value)
        /\ Listings(req) # {}
        /\ \A rows \in Listings(req) :
              /\ InOrder(rows, req.sort.value)
              /\ rows \in Listings(Unsorted(req))
        /\ \A u \in Listings(Unsorted(req)) :
              \A rows \in Listings(req) :
                  Range(rows) = Range(u) /\ Len(rows) = Len(u)
        /\ \A u \in UnsortedResponses(req) :
              resp.status = u.status /\ resp.count = u.count

C7_Witness ==
    /\ ListRequest(req)
    /\ req.sort = Given(T_desc_date_updated)
    /\ resp.status = 200
    /\ Len(resp.results) = 2
    /\ projects[resp.results[1]].date_updated > projects[resp.results[2]].date_updated
    /\ resp.results[1] > resp.results[2]

----------------------------------------------------------------------------
(* The three endpoints together, in any order. *)

T_a_aB == T_a \o <<COMMA>> \o T_aB
T_users_events == T_users \o <<COMMA>> \o T_events

Rows ==
    {[BaseRow EXCEPT !.public = b, !.tags = t] : b \in BOOLEAN, t \in {{}, {1}}}
    \cup {[BaseRow EXCEPT !.date_created = 2, !.name = T_Ab],
          [BaseRow EXCEPT !.categories = {1}]}

CategoryTables == {Categories0}

Init ==
    /\ projects \in [ProjectIds -> Rows]
    /\ tagTable = Tags0
    /\ categoryTable \in CategoryTables
    /\ page_size \in PageSizes
    /\ order_pattern = FALSE   \* plays no part: no sort term here needs the check
    /\ req = NoRequest
    /\ resp = NoResponse

Next ==
    \/ \E s \in {Absent, Given(T_a_aB)}, t \in {Absent, Given(T_aB)},
          so \in {Absent, Given(T_desc_date_created), Given(T_x)}, pg \in Pages :
          ProjectsListView(s, t, Absent, so, pg)
    \/ \E pk \in 0..NumProjects,
          e \in {Absent, Given(T_users), Given(T_users_events)} :
          ProjectView(pk, e)
    \/ CategoryListView

Spec == Init /\ [][Next]_vars

UnfilteredList(r) ==
    /\ ListRequest(r)
    /\ ~r.search.present /\ ~r.tags.present /\ ~r.categories.present
    /\ ~r.sort.present

\* C1: every project in a list page or a detail response is public, whatever
\* the query parameters; and every public project is listed on some page of
\* the unfiltered list and is returned by the detail endpoint for its id.
C1_PublicOnly ==
    /\ (req.view \in {"ProjectsListView", "ProjectView"}) =>
          \A i \in 1..Len(resp.results) : projects[resp.results[i]].public
    /\ UnfilteredList(req) => Lists(Public)
    /\ (req.view = "ProjectView" /\ req.pk \in Public) =>
          resp.status = 200 /\ resp.results = <<req.pk>>
    /\ \A id \in Public :
          /\ \A rows \in ProjectsListView_rows(Absent, Absent, Absent, Absent) :
                id \in Range(rows)
          /\ \E n \in 1..NumProjects :
                \E r \in ProjectsListView_responses(Absent, Absent, Absent,
                                                    Absent, PageNo(n)) :
                    id \in Range(r.results)
          /\ ProjectView_response(id, Absent).results = <<id>>

C1_Witness ==
    /\ UnfilteredList(req)
    /\ resp.status = 200
    /\ Len(resp.results) = 1
    /\ \E id \in DOMAIN projects : ~projects[id].public

\* C8: no request changes the store: every step, whichever endpoint answers
\* and whether it answers with data or with an error, leaves the projects, the
\* tags, the categories and their relations as they were.
C8_ReadOnly == [][store' = store]_vars

C8_Witness ==
    /\ ListRequest(req)
    /\ resp.status = 404
    /\ Public # {}

====
